---- MODULE Spec2Model ----
(***************************************************************************)
(* A model of two components of OpenFst:                                   *)
(*   - GenericRegister (src/include/fst/generic-register.h): the           *)
(*     process-wide key -> entry table with one-time initialisation, a     *)
(*     single mutex and a load-on-miss fallback;                           *)
(*   - SparseTupleWeight (src/include/fst/sparse-tuple-weight.h): the      *)
(*     sparse tuple weight, its iterator, equality, combination, hashing   *)
(*     and serialisation.                                                  *)
(* Spec is the registry (threads interleave at statement granularity),     *)
(* WeightSpec one weight under a sequence of its operations, PairSpec two  *)
(* weights with increasing keys compared and combined.                     *)
(***************************************************************************)
EXTENDS Integers, Sequences, FiniteSets, TLC

(***************************************************************************)
(* Bounds.                                                                 *)
(***************************************************************************)
NumThreads == 2
NumRKeys == 2
MaxOps == 2

\* Bounds of the weight models: the largest key, the largest scalar value and
\* the number of Push calls on a weight.
MaxKey == 1
MaxVal == 1
MaxPush == 2

\* The number of Reset() calls on an iterator.
MaxResets == 1

\* The largest argc a tool is started with.
MaxArgc == 4

Threads == 1..NumThreads
RKeys == 1..NumRKeys

\* nullptr: the initial value of register_lock_ and register_.
nullptr == 0
\* EntryType(): the value-initialized entry returned on a miss.
DefaultEntry == 0

\* Every set_entry call supplies an entry of its own, so that the entry found
\* in the table tells which registration put it there.
EntryOf(n) == n + 1
ModuleEntry(k) == MaxOps + k
Entries == 1..(MaxOps + NumRKeys)

VARIABLES
  register_init_,   \* FstOnceType: "uninit" (FST_ONCE_INIT), "running", "done"
  register_lock_,   \* Mutex *: nullptr or the mutex object (1)
  register_,        \* RegisterType *: nullptr or the registry object
  register_table_,  \* std::map<KeyType, EntryType>: a function on the stored keys
  lockHolder,       \* state of *register_lock_: 0, or the thread inside a MutexLock
  dlHolder,         \* the dynamic loader's lock: 0, or the thread inside dlopen
  loaded,           \* shared objects already loaded (by the key they were derived from)
  pc,               \* each thread's position
  nops,             \* registry operations started so far, by all threads
  reg,              \* the pointer each thread got from GetRegister
  skey, sent,       \* arguments of the thread's current SetEntry
  view,             \* SetEntry: the tree as std::map::insert read it
  gkey,             \* argument of the thread's current GetEntry
  phase,            \* 0: not in GetEntry; 1: first lookup / load; 2: lookup after the load
  ret,              \* value the thread's GetEntry is returning
  pending,          \* static registerers of the shared object still to be constructed
  initRuns,         \* history: number of times Init has run
  firstReg,         \* history: per key, the entry of the first SetEntry to take the lock
  regDone,          \* history: keys for which a SetEntry has returned
  g,                \* history: per thread, what its current GetEntry has done
  w,                \* WeightSpec: the weight under construction
  c,                \* WeightSpec: a second weight, made from w
  cop,              \* WeightSpec: how c was made: "none", "copy", "assign", "read",
                    \*   "readbin", "quantize", "reverse"
  strm,             \* WeightSpec: the stream w was last written to
  hist,             \* WeightSpec: history of the Push calls on w since its Init
  wa, wb,           \* PairSpec: the two operand weights
  ppc,              \* PairSpec: "start", "eq" (compared), "map" (combined),
                    \*   "walk" (in the loop of operator==), "walked" (it returned)
  eqab, eqba,       \* PairSpec: results of wa == wb and wb == wa
  mop,              \* PairSpec: the operator_mapper given to SparseTupleWeightMap
  mret,             \* PairSpec: the result weight of SparseTupleWeightMap
  calls,            \* PairSpec: history of the calls of the mapper's Map
  c1, c2,           \* PairSpec: the cursors w1_it, w2_it of operator== run step by step
  wres,             \* PairSpec: what that run returned
  delta,            \* WeightSpec: the delta of the Quantize that made c, else 0
  iw,               \* IterSpec: the weight iterated over
  itr,              \* IterSpec: the iterator (init_, position of iter_ in rest_)
  out,              \* IterSpec: history: the values the current traversal has yielded
  nn,               \* IterSpec: history: Next() calls since construction or Reset()
  pass,             \* IterSpec: history: number of Reset() calls
  tool,             \* ToolSpec: "fstconvert" or "fstreverse"
  argc,             \* ToolSpec: argc after SET_FLAGS
  env,              \* ToolSpec: which of Read, Convert/Reverse, Write will succeed
  tpc,              \* ToolSpec: position in main
  status,           \* ToolSpec: the value main returned, -1 while it runs
  output            \* ToolSpec: history: "none", "written" or "failed" (the Write call)

rvars == <<register_init_, register_lock_, register_, register_table_, lockHolder,
           dlHolder, loaded, pc, nops, reg, skey, sent, view, gkey, phase,
           ret, pending, initRuns, firstReg, regDone, g>>

wvars == <<w, c, cop, strm, hist, delta>>

pvars == <<wa, wb, ppc, eqab, eqba, mop, mret, calls, c1, c2, wres>>

ivars == <<iw, itr, out, nn, pass>>

tvars == <<tool, argc, env, tpc, status, output>>

vars == <<rvars, wvars, pvars, ivars, tvars>>

notRegistry == <<wvars, pvars, ivars, tvars>>

notWeight == <<rvars, pvars, ivars, tvars>>

notPair == <<rvars, wvars, ivars, tvars>>

notIter == <<rvars, wvars, pvars, tvars>>

notTool == <<rvars, wvars, pvars, ivars>>

EmptyMap == [k \in {} |-> 0]

\* History of one GetEntry call: the lookups and load attempts in order, whether
\* the first lookup hit, whether the key was registered when the call began,
\* whether dlopen gave a handle, the entry the shared object's startup code
\* passed to SetEntry for the key asked for (0: none), and the keys this thread
\* inserted during the call.
NoCall == [trace |-> <<>>, hit1 |-> FALSE, regAtStart |-> FALSE,
           loadok |-> FALSE, modreg |-> 0, wrote |-> {}]

RegInit ==
  /\ register_init_ = "uninit"
  /\ register_lock_ = nullptr
  /\ register_ = nullptr
  /\ register_table_ = EmptyMap
  /\ lockHolder = 0
  /\ dlHolder = 0
  /\ loaded = {}
  /\ pc = [t \in Threads |-> "getreg"]
  /\ nops = 0
  /\ reg = [t \in Threads |-> nullptr]
  /\ skey = [t \in Threads |-> 0]
  /\ sent = [t \in Threads |-> 0]
  /\ view = [t \in Threads |-> EmptyMap]
  /\ gkey = [t \in Threads |-> 0]
  /\ phase = [t \in Threads |-> 0]
  /\ ret = [t \in Threads |-> DefaultEntry]
  /\ pending = [t \in Threads |-> <<>>]
  /\ initRuns = 0
  /\ firstReg = [k \in RKeys |-> 0]
  /\ regDone = {}
  /\ g = [t \in Threads |-> NoCall]

(***************************************************************************)
(* GetRegister: FstOnceInit(&register_init_, &RegisterType::Init), then    *)
(* return register_.  FstOnceInit is the one-time-initialisation barrier:  *)
(* the first caller runs Init, callers arriving meanwhile wait until it    *)
(* has finished.                                                           *)
(***************************************************************************)
FstOnceInit_Enter(t) ==
  /\ pc[t] = "getreg"
  /\ register_init_ = "uninit"
  /\ register_init_' = "running"
  /\ pc' = [pc EXCEPT ![t] = "init_lock"]
  /\ UNCHANGED <<register_lock_, register_, register_table_, lockHolder, dlHolder,
                 loaded, nops, reg, skey, sent, view, gkey, phase, ret,
                 pending, initRuns, firstReg, regDone, g>>
  /\ UNCHANGED notRegistry

\* Init without its first statement: the registry is published with no mutex.
Init_Lock_Skipped(t) ==
  /\ pc[t] = "init_lock"
  /\ pc' = [pc EXCEPT ![t] = "init_register"]
  /\ UNCHANGED <<register_init_, register_lock_, lockHolder, register_,
                 register_table_, dlHolder,
                 loaded, nops, reg, skey, sent, view, gkey, phase, ret,
                 pending, initRuns, firstReg, regDone, g>>
  /\ UNCHANGED notRegistry

\* Init, first statement: register_lock_ = new Mutex.
Init_Lock(t) ==
  /\ pc[t] = "init_lock"
  /\ register_lock_' = 1
  /\ lockHolder' = 0
  /\ pc' = [pc EXCEPT ![t] = "init_register"]
  /\ UNCHANGED <<register_init_, register_, register_table_, dlHolder,
                 loaded, nops, reg, skey, sent, view, gkey, phase, ret,
                 pending, initRuns, firstReg, regDone, g>>
  /\ UNCHANGED notRegistry

\* Init, second statement: register_ = new RegisterType (an empty table).
Init_Register(t) ==
  /\ pc[t] = "init_register"
  /\ register_' = initRuns + 1
  /\ register_table_' = EmptyMap
  /\ initRuns' = initRuns + 1
  /\ pc' = [pc EXCEPT ![t] = "once_done"]
  /\ UNCHANGED <<register_init_, register_lock_, lockHolder, dlHolder,
                 loaded, nops, reg, skey, sent, view, gkey, phase, ret,
                 pending, firstReg, regDone, g>>
  /\ UNCHANGED notRegistry

FstOnceInit_Exit(t) ==
  /\ pc[t] = "once_done"
  /\ register_init_' = "done"
  /\ pc' = [pc EXCEPT ![t] = "getreg_ret"]
  /\ UNCHANGED <<register_lock_, register_, register_table_, lockHolder, dlHolder,
                 loaded, nops, reg, skey, sent, view, gkey, phase, ret,
                 pending, initRuns, firstReg, regDone, g>>
  /\ UNCHANGED notRegistry

\* With the initialisation over, FstOnceInit returns at once and GetRegister
\* returns register_.
GetRegister_Return(t) ==
  /\ pc[t] \in {"getreg", "getreg_ret"}
  /\ register_init_ = "done"
  /\ reg' = [reg EXCEPT ![t] = register_]
  /\ pc' = [pc EXCEPT ![t] = "idle"]
  /\ UNCHANGED <<register_init_, register_lock_, register_, register_table_,
                 lockHolder, dlHolder, loaded, nops, skey, sent, view, gkey, phase,
                 ret, pending, initRuns, firstReg, regDone, g>>
  /\ UNCHANGED notRegistry

(***************************************************************************)
(* SetEntry: MutexLock l(register_lock_); register_table_.insert(...).     *)
(***************************************************************************)
\* MutexLock's constructor: wait for the mutex and take it.
MutexLock_Acquire(t) ==
  /\ lockHolder = 0
  /\ lockHolder' = t

\* MutexLock's destructor.
MutexLock_Release(t) ==
  lockHolder' = 0

\* operator[]-style assignment in place of insert: a stored entry is replaced.
MapInsert_Overwrite(m, k, e) ==
  [x \in DOMAIN m \cup {k} |-> IF x = k THEN e ELSE m[x]]

\* std::map::insert: the pair is stored only when the key is not in the map.
MapInsert(m, k, e) ==
  IF k \in DOMAIN m
    THEN m
    ELSE [x \in DOMAIN m \cup {k} |-> IF x = k THEN e ELSE m[x]]

\* SetEntry without its MutexLock.
SetEntry_Lock_NoMutex(t, k, e) ==
  /\ UNCHANGED lockHolder
  /\ skey' = [skey EXCEPT ![t] = k]
  /\ sent' = [sent EXCEPT ![t] = e]
  /\ view' = [view EXCEPT ![t] = register_table_]
  /\ firstReg' = IF firstReg[k] = 0 THEN [firstReg EXCEPT ![k] = e] ELSE firstReg
  /\ pc' = [pc EXCEPT ![t] = "set_insert"]

\* SetEntry(k, e) takes the lock; insert then searches the tree for the key's
\* place.
SetEntry_Lock(t, k, e) ==
  /\ MutexLock_Acquire(t)
  /\ skey' = [skey EXCEPT ![t] = k]
  /\ sent' = [sent EXCEPT ![t] = e]
  /\ view' = [view EXCEPT ![t] = register_table_]
  /\ firstReg' = IF firstReg[k] = 0 THEN [firstReg EXCEPT ![k] = e] ELSE firstReg
  /\ pc' = [pc EXCEPT ![t] = "set_insert"]

\* A thread that holds the registry pointer calls SetEntry with an entry of
\* its own.
CallSetEntry(t, k) ==
  /\ pc[t] = "idle"
  /\ nops < MaxOps
  /\ nops' = nops + 1
  /\ SetEntry_Lock(t, k, EntryOf(nops))
  /\ UNCHANGED <<register_init_, register_lock_, register_, register_table_,
                 dlHolder, loaded, reg, gkey, phase, ret,
                 pending, initRuns, regDone, g>>
  /\ UNCHANGED notRegistry

\* insert links the new node into the tree as it was read; SetEntry returns,
\* releasing the lock, to the thread's program or to the shared object's
\* startup code that called it.
SetEntry_Insert(t) ==
  /\ pc[t] = "set_insert"
  /\ register_table_' = MapInsert(view[t], skey[t], sent[t])
  /\ MutexLock_Release(t)
  /\ view' = [view EXCEPT ![t] = EmptyMap]
  /\ g' = [g EXCEPT ![t].wrote =
             IF phase[t] = 1 /\ skey[t] \notin DOMAIN view[t]
               THEN @ \cup {skey[t]} ELSE @]
  /\ regDone' = regDone \cup {skey[t]}
  /\ skey' = [skey EXCEPT ![t] = 0]
  /\ sent' = [sent EXCEPT ![t] = 0]
  /\ pc' = [pc EXCEPT ![t] = IF phase[t] = 1 THEN "module_init" ELSE "idle"]
  /\ UNCHANGED <<register_init_, register_lock_, register_, dlHolder, loaded,
                 nops, reg, gkey, phase, ret, pending, initRuns, firstReg>>
  /\ UNCHANGED notRegistry

(***************************************************************************)
(* LookupEntry: MutexLock l(register_lock_); find(key); the lock is        *)
(* released when the function returns a pointer to the entry or nullptr.   *)
(***************************************************************************)
\* GetEntry that goes to the shared object whatever the lookup found.
GetEntry_Branch_AlwaysLoad(hit) == "dlopen"

\* GetEntry after its LookupEntry: a hit is copied out, a miss goes to
\* LoadEntryFromSharedObject.
GetEntry_Branch(hit) == IF hit THEN "get_copy" ELSE "dlopen"

\* LoadEntryFromSharedObject after its LookupEntry: a hit is copied out, a
\* miss is logged and EntryType() returned.
LoadEntry_Branch(hit) == IF hit THEN "get_copy" ELSE "ret_default"

\* operator[]-style lookup in place of find: a missing key is inserted with a
\* value-initialized entry.
MapFind_Inserting(m, k) ==
  [hit |-> k \in DOMAIN m,
   map |-> [x \in DOMAIN m \cup {k} |-> IF x \in DOMAIN m THEN m[x] ELSE DefaultEntry]]

\* find: whether the key is stored; the map is left as it was.
MapFind(m, k) == [hit |-> k \in DOMAIN m, map |-> m]

\* LookupEntry(k) called by GetEntry (ph = 1) or by LoadEntryFromSharedObject
\* after the load (ph = 2), on the history h of the call.
\* LookupEntry whose lock is still held when it returns.
LookupEntry_KeepsLock(t, k, ph, h) ==
  /\ lockHolder = 0
  /\ LET r == MapFind(register_table_, k) IN
       /\ register_table_' = r.map
       /\ pc' = [pc EXCEPT ![t] = IF ph = 1 THEN GetEntry_Branch(r.hit)
                                            ELSE LoadEntry_Branch(r.hit)]
       /\ g' = [g EXCEPT ![t] = [h EXCEPT !.trace = Append(@, "lookup"),
                                          !.hit1 = IF ph = 1 THEN r.hit ELSE @]]
  /\ lockHolder' = t

LookupEntry(t, k, ph, h) ==
  /\ lockHolder = 0
  /\ LET r == MapFind(register_table_, k) IN
       /\ register_table_' = r.map
       /\ pc' = [pc EXCEPT ![t] = IF ph = 1 THEN GetEntry_Branch(r.hit)
                                            ELSE LoadEntry_Branch(r.hit)]
       /\ g' = [g EXCEPT ![t] = [h EXCEPT !.trace = Append(@, "lookup"),
                                          !.hit1 = IF ph = 1 THEN r.hit ELSE @]]
  /\ UNCHANGED lockHolder

\* A thread that holds the registry pointer calls GetEntry, which begins with
\* LookupEntry.
CallGetEntry(t, k) ==
  /\ pc[t] = "idle"
  /\ nops < MaxOps
  /\ nops' = nops + 1
  /\ gkey' = [gkey EXCEPT ![t] = k]
  /\ phase' = [phase EXCEPT ![t] = 1]
  /\ LookupEntry(t, k, 1, [NoCall EXCEPT !.regAtStart = (k \in regDone)])
  /\ UNCHANGED <<register_init_, register_lock_, register_,
                 dlHolder, loaded, reg, skey, sent, view, ret,
                 pending, initRuns, firstReg, regDone>>
  /\ UNCHANGED notRegistry

\* The lookup after the shared object has been loaded.
LoadEntry_Lookup(t) ==
  /\ pc[t] = "lookup"
  /\ LookupEntry(t, gkey[t], 2, g[t])
  /\ UNCHANGED <<register_init_, register_lock_, register_, dlHolder,
                 loaded, nops, reg, skey, sent, view, gkey, phase, ret, pending,
                 initRuns, firstReg, regDone>>
  /\ UNCHANGED notRegistry

\* return *entry (GetEntry line 51, LoadEntryFromSharedObject line 86).
GetEntry_Copy(t) ==
  /\ pc[t] = "get_copy"
  /\ ret' = [ret EXCEPT ![t] = register_table_[gkey[t]]]
  /\ pc' = [pc EXCEPT ![t] = "get_done"]
  /\ UNCHANGED <<register_init_, register_lock_, register_, register_table_,
                 lockHolder, dlHolder, loaded, nops, reg, skey, sent, view, gkey,
                 phase, pending, initRuns, firstReg, regDone, g>>
  /\ UNCHANGED notRegistry

\* return EntryType() (lines 71 and 84).
LoadEntry_ReturnDefault(t) ==
  /\ pc[t] = "ret_default"
  /\ ret' = [ret EXCEPT ![t] = DefaultEntry]
  /\ pc' = [pc EXCEPT ![t] = "get_done"]
  /\ UNCHANGED <<register_init_, register_lock_, register_, register_table_,
                 lockHolder, dlHolder, loaded, nops, reg, skey, sent, view, gkey,
                 phase, pending, initRuns, firstReg, regDone, g>>
  /\ UNCHANGED notRegistry

\* The caller takes GetEntry's result and goes on.
GetEntry_Return(t) ==
  /\ pc[t] = "get_done"
  /\ ret' = [ret EXCEPT ![t] = DefaultEntry]
  /\ gkey' = [gkey EXCEPT ![t] = 0]
  /\ phase' = [phase EXCEPT ![t] = 0]
  /\ g' = [g EXCEPT ![t] = NoCall]
  /\ pc' = [pc EXCEPT ![t] = "idle"]
  /\ UNCHANGED <<register_init_, register_lock_, register_, register_table_,
                 lockHolder, dlHolder, loaded, nops, reg, skey, sent, view,
                 pending, initRuns, firstReg, regDone>>
  /\ UNCHANGED notRegistry

(***************************************************************************)
(* LoadEntryFromSharedObject: dlopen(ConvertKeyToSoFilename(key)).  The    *)
(* shared object may not exist (handle == nullptr).  When it is loaded for *)
(* the first time its static GenericRegisterer objects are constructed on  *)
(* the calling thread, inside dlopen; what they register is up to the      *)
(* shared object: nothing, the key asked for, or another key.              *)
(***************************************************************************)
ModuleRegs(k) == {<<>>} \cup {<< <<k2, ModuleEntry(k)>> >> : k2 \in RKeys}

LoadEntry_DlopenFail(t) ==
  /\ pc[t] = "dlopen"
  /\ dlHolder = 0
  /\ gkey[t] \notin loaded
  /\ g' = [g EXCEPT ![t].trace = Append(@, "load")]
  /\ pc' = [pc EXCEPT ![t] = "ret_default"]
  /\ UNCHANGED <<register_init_, register_lock_, register_, register_table_,
                 lockHolder, dlHolder, loaded, nops, reg, skey, sent, view, gkey,
                 phase, ret, pending, initRuns, firstReg, regDone>>
  /\ UNCHANGED notRegistry

LoadEntry_DlopenOk(t) ==
  /\ pc[t] = "dlopen"
  /\ dlHolder = 0
  /\ g' = [g EXCEPT ![t].trace = Append(@, "load"), ![t].loadok = TRUE]
  /\ IF gkey[t] \in loaded
       THEN /\ phase' = [phase EXCEPT ![t] = 2]
            /\ pc' = [pc EXCEPT ![t] = "lookup"]
            /\ UNCHANGED <<dlHolder, loaded, pending>>
       ELSE /\ \E regs \in ModuleRegs(gkey[t]) :
                 pending' = [pending EXCEPT ![t] = regs]
            /\ loaded' = loaded \cup {gkey[t]}
            /\ dlHolder' = t
            /\ pc' = [pc EXCEPT ![t] = "module_init"]
            /\ UNCHANGED phase
  /\ UNCHANGED <<register_init_, register_lock_, register_, register_table_,
                 lockHolder, nops, reg, skey, sent, view, gkey, ret,
                 initRuns, firstReg, regDone>>
  /\ UNCHANGED notRegistry

\* The shared object's startup code: each static GenericRegisterer(key, entry)
\* calls GetRegister (the one-time initialisation has been done) and SetEntry.
\* After the last one dlopen returns the handle and the lookup is repeated.
LoadEntry_ModuleInit(t) ==
  /\ pc[t] = "module_init"
  /\ IF pending[t] = <<>>
       THEN /\ dlHolder' = 0
            /\ phase' = [phase EXCEPT ![t] = 2]
            /\ pc' = [pc EXCEPT ![t] = "lookup"]
            /\ UNCHANGED <<lockHolder, skey, sent, view, firstReg, pending, g>>
       ELSE /\ register_init_ = "done"
            /\ SetEntry_Lock(t, Head(pending[t])[1], Head(pending[t])[2])
            /\ pending' = [pending EXCEPT ![t] = Tail(@)]
            /\ g' = [g EXCEPT ![t].modreg =
                       IF Head(pending[t])[1] = gkey[t] THEN Head(pending[t])[2] ELSE @]
            /\ UNCHANGED <<dlHolder, phase>>
  /\ UNCHANGED <<register_init_, register_lock_, register_, register_table_,
                 loaded, nops, reg, gkey, ret, initRuns, regDone>>
  /\ UNCHANGED notRegistry

(***************************************************************************)
(* SparseTupleWeight<W, K>.  A weight is its three data members: def       *)
(* (default_), first (first_, a <<key, value>> pair) and rest (rest_, the  *)
(* list of further pairs).  The scalar weights W are the numbers 0..MaxVal *)
(* compared with =; K is int.                                              *)
(***************************************************************************)
\* const static K kNoKey = -1.
kNoKey == -1
\* W::Zero(), the default of a weight constructed without one.
WZero == 0

\* The keys a caller can pass to Push: nothing rejects the reserved kNoKey.
Keys == kNoKey..MaxKey
ValidKeys == 0..MaxKey
Vals == 0..MaxVal

\* A newly constructed object after Init(default_value): first_.second is
\* what W's default constructor left there (s).
Construct(default_value, s) ==
  [def |-> default_value, first |-> <<kNoKey, s>>, rest |-> <<>>]

\* Init that leaves rest_ as it is.
WeightInit_KeepsRest(x, default_value) ==
  [def |-> default_value, first |-> <<kNoKey, x.first[2]>>, rest |-> x.rest]

\* void Init(const W &default_value): first_.second is not touched.
WeightInit(x, default_value) ==
  [def |-> default_value, first |-> <<kNoKey, x.first[2]>>, rest |-> <<>>]

Size(x) == IF x.first[1] = kNoKey THEN 0 ELSE Len(x.rest) + 1

\* Push that stores the pair whatever its value.
Push_NoElision(x, p, default_value_check) ==
  IF x.first[1] = kNoKey
    THEN [x EXCEPT !.first = p]
    ELSE [x EXCEPT !.rest = Append(@, p)]

\* void Push(const Pair &p, bool default_value_check = true).
Push(x, p, default_value_check) ==
  IF default_value_check /\ p[2] = x.def
    THEN x
    ELSE IF x.first[1] = kNoKey
           THEN [x EXCEPT !.first = p]
           ELSE [x EXCEPT !.rest = Append(@, p)]

SetDefaultValue(x, val) == [x EXCEPT !.def = val]

DefaultValue(x) == x.def

(***************************************************************************)
(* SparseTupleWeightIterator: init_ and the position of iter_ in rest_     *)
(* (Len + 1 is rest_.end()).  first_ and rest_ are references to the       *)
(* weight's members, so the weight is passed along.                        *)
(***************************************************************************)
Iterator(x) == [init |-> TRUE, pos |-> 1]

Done(x, it) ==
  IF it.init THEN x.first[1] = kNoKey ELSE it.pos = Len(x.rest) + 1

Value(x, it) == IF it.init THEN x.first ELSE x.rest[it.pos]

\* Next() that moves iter_ on the first call too.
ItNext_AlsoAdvances(it) == [init |-> FALSE, pos |-> it.pos + 1]

ItNext(it) == IF it.init THEN [it EXCEPT !.init = FALSE] ELSE [it EXCEPT !.pos = @ + 1]

Reset(it) == [init |-> TRUE, pos |-> 1]

\* for (SparseTupleWeightIterator it(x); !it.Done(); it.Next()): the pairs
\* it.Value() yields, in order.
RECURSIVE Traverse(_, _)
Traverse(x, it) ==
  IF Done(x, it) THEN <<>> ELSE <<Value(x, it)>> \o Traverse(x, ItNext(it))

Stored(x) == Traverse(x, Iterator(x))

\* The same loop with body Push(it.Value()) on the weight dst.
RECURSIVE PushAll(_, _, _)
PushAll(dst, x, it) ==
  IF Done(x, it) THEN dst ELSE PushAll(Push(dst, Value(x, it), TRUE), x, ItNext(it))

\* SparseTupleWeight(const SparseTupleWeight &w), on a new object.
CopyConstruct(s, x) ==
  PushAll(SetDefaultValue(WeightInit(Construct(WZero, s), DefaultValue(x)),
                          DefaultValue(x)),
          x, Iterator(x))

\* operator=(const SparseTupleWeight &w) on another object dst (this != &w).
Assign(dst, x) == PushAll(WeightInit(dst, DefaultValue(x)), x, Iterator(x))

\* std::hash<K> of an int is its value converted to size_t; the scalar's
\* Hash() is any function of its value.  Hash() computes in uint64; within the
\* bounds the sums below stay under 2^31 in absolute value, where equality
\* modulo 2^64 is equality of these integers (kNoKey hashes to -1 mod 2^64).
KeyHash(k) == k

ScalarHash(v) == 3 * v + 1

RECURSIVE HashLoop(_, _, _)
HashLoop(x, it, hh) ==
  IF Done(x, it)
    THEN hh
    ELSE HashLoop(x, ItNext(it),
                  13 * (5 * hh + KeyHash(Value(x, it)[1])) + ScalarHash(Value(x, it)[2]))

\* Hash() that reads first_ whether or not it holds a component.
Hash_ReadsInlineSlot(x) ==
  IF Size(x) = 0
    THEN 13 * (5 * 0 + KeyHash(x.first[1])) + ScalarHash(x.first[2])
    ELSE HashLoop(x, Iterator(x), 0)

Hash(x) == HashLoop(x, Iterator(x), 0)

(***************************************************************************)
(* Quantize and Reverse: a weight constructed by SparseTupleWeight w; and  *)
(* filled by Push(key, changed value), default elision on.                 *)
(***************************************************************************)
Deltas == {1, 2, 3}

\* W::Quantize(delta): the multiple of delta nearest to the value,
\* floor(v / delta + 1/2) * delta.
ScalarQuantize(v, d) == ((2 * v + d) \div (2 * d)) * d

\* W::Reverse(): the value in the reverse semiring, written here as the
\* negated number; it maps Zero to Zero and is not the identity.
ScalarReverse(v) == 0 - v

RECURSIVE QuantizeLoop(_, _, _, _)
QuantizeLoop(dst, x, i, d) ==
  IF Done(x, i)
    THEN dst
    ELSE QuantizeLoop(Push(dst, <<Value(x, i)[1], ScalarQuantize(Value(x, i)[2], d)>>, TRUE),
                      x, ItNext(i), d)

\* SparseTupleWeight Quantize(float delta) const.
Quantize(s, x, d) == QuantizeLoop(WeightInit(Construct(WZero, s), WZero), x, Iterator(x), d)

RECURSIVE ReverseLoop(_, _, _)
ReverseLoop(dst, x, i) ==
  IF Done(x, i)
    THEN dst
    ELSE ReverseLoop(Push(dst, <<Value(x, i)[1], ScalarReverse(Value(x, i)[2])>>, TRUE),
                     x, ItNext(i))

\* Reverse starting from a weight that has the default of the original.
Reverse_KeepDefault(s, x) ==
  CopyConstruct(s, ReverseLoop(WeightInit(Construct(WZero, s), x.def), x, Iterator(x)))

\* ReverseWeight Reverse() const: the loop, then ReverseWeight(w).
Reverse(s, x) ==
  CopyConstruct(s, ReverseLoop(WeightInit(Construct(WZero, s), WZero), x, Iterator(x)))

(***************************************************************************)
(* operator==: the synchronized walk of two iterators.                     *)
(***************************************************************************)
\* One iteration of the while loop: ok is FALSE when it returns false.
EqStep_SkipLess(w1, w2, it1, it2) ==
  LET d1 == Done(w1, it1)
      d2 == Done(w2, it2)
      k1 == IF d1 THEN Value(w2, it2)[1] ELSE Value(w1, it1)[1]
      k2 == IF d2 THEN Value(w1, it1)[1] ELSE Value(w2, it2)[1]
      v1 == IF d1 THEN w1.def ELSE Value(w1, it1)[2]
      v2 == IF d2 THEN w2.def ELSE Value(w2, it2)[2]
  IN IF k1 = k2
       THEN [ok |-> v1 = v2,
             it1 |-> IF d1 THEN it1 ELSE ItNext(it1),
             it2 |-> IF d2 THEN it2 ELSE ItNext(it2)]
       ELSE IF k1 < k2
              THEN [ok |-> TRUE, it1 |-> ItNext(it1), it2 |-> it2]
              ELSE [ok |-> w1.def = v2, it1 |-> it1, it2 |-> ItNext(it2)]

\* The loop body that does not compare in the k1 > k2 branch.
EqStep_SkipGreater(w1, w2, it1, it2) ==
  LET d1 == Done(w1, it1)
      d2 == Done(w2, it2)
      k1 == IF d1 THEN Value(w2, it2)[1] ELSE Value(w1, it1)[1]
      k2 == IF d2 THEN Value(w1, it1)[1] ELSE Value(w2, it2)[1]
      v1 == IF d1 THEN w1.def ELSE Value(w1, it1)[2]
      v2 == IF d2 THEN w2.def ELSE Value(w2, it2)[2]
  IN IF k1 = k2
       THEN [ok |-> v1 = v2,
             it1 |-> IF d1 THEN it1 ELSE ItNext(it1),
             it2 |-> IF d2 THEN it2 ELSE ItNext(it2)]
       ELSE IF k1 < k2
              THEN [ok |-> v1 = w2.def, it1 |-> ItNext(it1), it2 |-> it2]
              ELSE [ok |-> TRUE, it1 |-> it1, it2 |-> ItNext(it2)]

EqStep(w1, w2, it1, it2) ==
  LET d1 == Done(w1, it1)
      d2 == Done(w2, it2)
      k1 == IF d1 THEN Value(w2, it2)[1] ELSE Value(w1, it1)[1]
      k2 == IF d2 THEN Value(w1, it1)[1] ELSE Value(w2, it2)[1]
      v1 == IF d1 THEN w1.def ELSE Value(w1, it1)[2]
      v2 == IF d2 THEN w2.def ELSE Value(w2, it2)[2]
  IN IF k1 = k2
       THEN [ok |-> v1 = v2,
             it1 |-> IF d1 THEN it1 ELSE ItNext(it1),
             it2 |-> IF d2 THEN it2 ELSE ItNext(it2)]
       ELSE IF k1 < k2
              THEN [ok |-> v1 = w2.def, it1 |-> ItNext(it1), it2 |-> it2]
              ELSE [ok |-> w1.def = v2, it1 |-> it1, it2 |-> ItNext(it2)]

RECURSIVE EqLoop(_, _, _, _)
EqLoop(w1, w2, it1, it2) ==
  IF Done(w1, it1) /\ Done(w2, it2)
    THEN TRUE
    ELSE LET r == EqStep(w1, w2, it1, it2)
         IN IF r.ok THEN EqLoop(w1, w2, r.it1, r.it2) ELSE FALSE

WeightEq(w1, w2) ==
  IF w1.def # w2.def THEN FALSE ELSE EqLoop(w1, w2, Iterator(w1), Iterator(w2))

(***************************************************************************)
(* SparseTupleWeightMap: the same walk, calling operator_mapper.Map and    *)
(* pushing what it returns.  log records every call of Map: the call site  *)
(* (the one call that computes the default, or a call in the loop), the    *)
(* key and the two values passed, and the value returned.                  *)
(***************************************************************************)
Mappers == {"plus", "times", "keyed"}

\* operator_mapper.Map(k, v1, v2) for the mappers above.
OpMap(op, k, v1, v2) ==
  CASE op = "plus" -> v1 + v2
    [] op = "times" -> v1 * v2
    [] OTHER -> v1 + v2 + k

MapCall(site, op, k, v1, v2) ==
  [site |-> site, k |-> k, a |-> v1, b |-> v2, r |-> OpMap(op, k, v1, v2)]

\* The loop body with the value of w2's cursor passed where w2's default belongs.
MapStep_CursorValue(res, w1, w2, it1, it2, op, log) ==
  LET d1 == Done(w1, it1)
      d2 == Done(w2, it2)
      k1 == IF d1 THEN Value(w2, it2)[1] ELSE Value(w1, it1)[1]
      k2 == IF d2 THEN Value(w1, it1)[1] ELSE Value(w2, it2)[1]
      v1 == IF d1 THEN w1.def ELSE Value(w1, it1)[2]
      v2 == IF d2 THEN w2.def ELSE Value(w2, it2)[2]
  IN IF k1 = k2
       THEN [ret |-> Push(res, <<k1, OpMap(op, k1, v1, v2)>>, TRUE),
             it1 |-> IF d1 THEN it1 ELSE ItNext(it1),
             it2 |-> IF d2 THEN it2 ELSE ItNext(it2),
             log |-> Append(log, MapCall("walk", op, k1, v1, v2))]
       ELSE IF k1 < k2
              THEN [ret |-> Push(res, <<k1, OpMap(op, k1, v1, v2)>>, TRUE),
                    it1 |-> ItNext(it1), it2 |-> it2,
                    log |-> Append(log, MapCall("walk", op, k1, v1, v2))]
              ELSE [ret |-> Push(res, <<k2, OpMap(op, k2, w1.def, v2)>>, TRUE),
                    it1 |-> it1, it2 |-> ItNext(it2),
                    log |-> Append(log, MapCall("walk", op, k2, w1.def, v2))]

\* One iteration of the while loop of SparseTupleWeightMap.
MapStep(res, w1, w2, it1, it2, op, log) ==
  LET d1 == Done(w1, it1)
      d2 == Done(w2, it2)
      k1 == IF d1 THEN Value(w2, it2)[1] ELSE Value(w1, it1)[1]
      k2 == IF d2 THEN Value(w1, it1)[1] ELSE Value(w2, it2)[1]
      v1 == IF d1 THEN w1.def ELSE Value(w1, it1)[2]
      v2 == IF d2 THEN w2.def ELSE Value(w2, it2)[2]
  IN IF k1 = k2
       THEN [ret |-> Push(res, <<k1, OpMap(op, k1, v1, v2)>>, TRUE),
             it1 |-> IF d1 THEN it1 ELSE ItNext(it1),
             it2 |-> IF d2 THEN it2 ELSE ItNext(it2),
             log |-> Append(log, MapCall("walk", op, k1, v1, v2))]
       ELSE IF k1 < k2
              THEN [ret |-> Push(res, <<k1, OpMap(op, k1, v1, w2.def)>>, TRUE),
                    it1 |-> ItNext(it1), it2 |-> it2,
                    log |-> Append(log, MapCall("walk", op, k1, v1, w2.def))]
              ELSE [ret |-> Push(res, <<k2, OpMap(op, k2, w1.def, v2)>>, TRUE),
                    it1 |-> it1, it2 |-> ItNext(it2),
                    log |-> Append(log, MapCall("walk", op, k2, w1.def, v2))]

RECURSIVE MapLoop(_, _, _, _, _, _, _)
MapLoop(res, w1, w2, it1, it2, op, log) ==
  IF Done(w1, it1) /\ Done(w2, it2)
    THEN [ret |-> res, log |-> log]
    ELSE LET r == MapStep(res, w1, w2, it1, it2, op, log)
         IN MapLoop(r.ret, w1, w2, r.it1, r.it2, op, r.log)

\* SparseTupleWeightMap that sets the default after the loop.
SparseTupleWeightMap_DefaultLast(res, w1, w2, op) ==
  LET r == MapLoop(res, w1, w2, Iterator(w1), Iterator(w2), op,
                   <<MapCall("default", op, 0, w1.def, w2.def)>>)
  IN [ret |-> SetDefaultValue(r.ret, OpMap(op, 0, w1.def, w2.def)), log |-> r.log]

\* The default is computed by Map(0, v1_def, v2_def): the key passed is 0.
SparseTupleWeightMap(res, w1, w2, op) ==
  MapLoop(SetDefaultValue(res, OpMap(op, 0, w1.def, w2.def)),
          w1, w2, Iterator(w1), Iterator(w2), op,
          <<MapCall("default", op, 0, w1.def, w2.def)>>)

(***************************************************************************)
(* Serialization.  The framed stream of CompositeWeightWriter/Reader is a  *)
(* sequence of tokens: a begin marker, the elements, an end marker.        *)
(* ReadElement returns whether more elements follow.                       *)
(***************************************************************************)
WriteBegin(s) == Append(s, [tok |-> "begin", val |-> 0])

WriteElement(s, x) == Append(s, [tok |-> "elem", val |-> x])

WriteEnd(s) == Append(s, [tok |-> "end", val |-> 0])

ReadBegin(s, pos) == pos + 1

ReadElement(s, pos) ==
  [val |-> s[pos].val, more |-> s[pos + 1].tok = "elem", pos |-> pos + 1]

RECURSIVE WriteLoop(_, _, _)
WriteLoop(s, x, it) ==
  IF Done(x, it)
    THEN s
    ELSE WriteLoop(WriteElement(WriteElement(s, Value(x, it)[1]), Value(x, it)[2]),
                   x, ItNext(it))

\* operator<<(strm, w).
FramedWrite(x) ==
  WriteEnd(WriteLoop(WriteElement(WriteBegin(<<>>), DefaultValue(x)), x, Iterator(x)))

\* The while (more) loop of operator>>: w.Push(key, v).
RECURSIVE ReadLoop(_, _, _, _)
ReadLoop(s, pos, x, more) ==
  IF ~more
    THEN x
    ELSE LET key == ReadElement(s, pos)
             v == ReadElement(s, key.pos)
         IN ReadLoop(s, v.pos, Push(x, <<key.val, v.val>>, TRUE), v.more)

\* operator>>(strm, w) on the weight x.
FramedRead(x, s) ==
  LET def == ReadElement(s, ReadBegin(s, 1))
  IN ReadLoop(s, def.pos, WeightInit(x, def.val), def.more)

\* Write(strm): WriteType of default_, first_, rest_.
BinWrite(x) == <<x.def, x.first, x.rest>>

\* Read(strm): ReadType into default_, first_, rest_.
BinRead(x, b) == [def |-> b[1], first |-> b[2], rest |-> b[3]]

(***************************************************************************)
(* One weight under a sequence of operations.  w is the weight, c the      *)
(* object last produced from it (copy, assignment target, read target),    *)
(* cop says how, strm is the stream last written.  hist is the history of  *)
(* the pushes since the last Init.                                         *)
(***************************************************************************)
Fresh == Construct(WZero, WZero)

NoStream == [fmt |-> "none", data |-> <<>>]

NoHist ==
  [n |-> 0, ndiff |-> 0, nforced |-> 0, incr |-> TRUE, last |-> kNoKey - 1,
   nokey |-> FALSE, el |-> FALSE]

\* The objects an assignment or a read can target: new ones, and one that
\* already holds a component.
DstWeights ==
  {Construct(d, s) : d \in Vals, s \in Vals}
    \cup {Push(Construct(WZero, WZero), <<0, MaxVal>>, FALSE)}

WeightIdle ==
  /\ w = Fresh
  /\ c = Fresh
  /\ cop = "none"
  /\ strm = NoStream
  /\ hist = NoHist
  /\ delta = 0

\* SparseTupleWeight() { Init(); }
WeightInitial ==
  /\ \E s \in Vals : w = Construct(WZero, s)
  /\ c = Fresh
  /\ cop = "none"
  /\ strm = NoStream
  /\ hist = NoHist
  /\ delta = 0

Forget ==
  /\ c' = Fresh
  /\ cop' = "none"
  /\ strm' = NoStream
  /\ delta' = 0

W_Init(d) ==
  /\ w' = WeightInit(w, d)
  /\ hist' = NoHist
  /\ Forget
  /\ UNCHANGED notWeight

W_Push(k, v, default_value_check) ==
  /\ hist.n < MaxPush
  /\ w' = Push(w, <<k, v>>, default_value_check)
  /\ hist' = [n |-> hist.n + 1,
              ndiff |-> hist.ndiff + (IF v # w.def THEN 1 ELSE 0),
              nforced |-> hist.nforced + (IF ~default_value_check /\ v = w.def THEN 1 ELSE 0),
              incr |-> hist.incr /\ k > hist.last,
              last |-> k,
              nokey |-> hist.nokey \/ k = kNoKey,
              el |-> default_value_check /\ v = w.def]
  /\ Forget
  /\ UNCHANGED notWeight

W_SetDefaultValue(v) ==
  /\ w' = SetDefaultValue(w, v)
  /\ Forget
  /\ UNCHANGED hist
  /\ UNCHANGED notWeight

W_Copy ==
  /\ cop = "none"
  /\ \E s \in Vals : c' = CopyConstruct(s, w)
  /\ cop' = "copy"
  /\ UNCHANGED <<w, strm, hist, delta>>
  /\ UNCHANGED notWeight

W_Assign ==
  /\ cop = "none"
  /\ \E dst \in DstWeights : c' = Assign(dst, w)
  /\ cop' = "assign"
  /\ UNCHANGED <<w, strm, hist, delta>>
  /\ UNCHANGED notWeight

W_Write ==
  /\ cop = "none"
  /\ strm' = [fmt |-> "framed", data |-> FramedWrite(w)]
  /\ UNCHANGED <<w, c, cop, hist, delta>>
  /\ UNCHANGED notWeight

W_Read ==
  /\ cop = "none"
  /\ strm.fmt = "framed"
  /\ \E dst \in DstWeights : c' = FramedRead(dst, strm.data)
  /\ cop' = "read"
  /\ strm' = NoStream
  /\ UNCHANGED <<w, hist, delta>>
  /\ UNCHANGED notWeight

W_WriteBin ==
  /\ cop = "none"
  /\ strm' = [fmt |-> "bin", data |-> BinWrite(w)]
  /\ UNCHANGED <<w, c, cop, hist, delta>>
  /\ UNCHANGED notWeight

W_ReadBin ==
  /\ cop = "none"
  /\ strm.fmt = "bin"
  /\ \E dst \in DstWeights : c' = BinRead(dst, strm.data)
  /\ cop' = "readbin"
  /\ strm' = NoStream
  /\ UNCHANGED <<w, hist, delta>>
  /\ UNCHANGED notWeight

W_Quantize(d) ==
  /\ cop = "none"
  /\ \E s \in Vals : c' = Quantize(s, w, d)
  /\ cop' = "quantize"
  /\ delta' = d
  /\ UNCHANGED <<w, strm, hist>>
  /\ UNCHANGED notWeight

W_Reverse ==
  /\ cop = "none"
  /\ \E s \in Vals : c' = Reverse(s, w)
  /\ cop' = "reverse"
  /\ UNCHANGED <<w, strm, hist, delta>>
  /\ UNCHANGED notWeight

WeightNext ==
  \/ \E d \in Vals : W_Init(d)
  \/ \E k \in Keys, v \in Vals, chk \in BOOLEAN : W_Push(k, v, chk)
  \/ \E v \in Vals : W_SetDefaultValue(v)
  \/ W_Copy
  \/ W_Assign
  \/ W_Write
  \/ W_Read
  \/ W_WriteBin
  \/ W_ReadBin
  \/ \E d \in Deltas : W_Quantize(d)
  \/ W_Reverse

(***************************************************************************)
(* Two weights whose stored keys are strictly increasing, compared and     *)
(* combined.                                                               *)
(***************************************************************************)
\* Pushes the components of f in increasing key order, none elided.
RECURSIVE PushSorted(_, _, _)
PushSorted(x, f, k) ==
  IF k > MaxKey
    THEN x
    ELSE PushSorted(IF k \in DOMAIN f THEN Push(x, <<k, f[k]>>, FALSE) ELSE x, f, k + 1)

SortedWeights ==
  UNION {{PushSorted(Construct(d, s), f, 0) : f \in [S -> Vals]} :
           d \in Vals, s \in Vals, S \in SUBSET ValidKeys}

\* Pushes the components of f in increasing key order, default elision on.
RECURSIVE PushSortedEliding(_, _, _)
PushSortedEliding(x, f, k) ==
  IF k > MaxKey
    THEN x
    ELSE PushSortedEliding(IF k \in DOMAIN f THEN Push(x, <<k, f[k]>>, TRUE) ELSE x,
                           f, k + 1)

\* The weights built from a constructed one by default-eliding pushes only,
\* keys increasing (kNoKey may come first).
ElidingBuilt ==
  UNION {{PushSortedEliding(Construct(d, s), f, kNoKey) : f \in [S -> Vals]} :
           d \in Vals, s \in Vals, S \in SUBSET Keys}

\* A = {default 0, (2,5)} and B = {default 0, (2,3), (4,1)}.
ExampleA == Push(Construct(WZero, WZero), <<2, 5>>, TRUE)

ExampleB == Push(Push(Construct(WZero, WZero), <<2, 3>>, TRUE), <<4, 1>>, TRUE)

PairIdle ==
  /\ wa = Fresh
  /\ wb = Fresh
  /\ ppc = "idle"
  /\ eqab = FALSE
  /\ eqba = FALSE
  /\ mop = "none"
  /\ mret = Fresh
  /\ calls = <<>>
  /\ c1 = Iterator(wa)
  /\ c2 = Iterator(wb)
  /\ wres = FALSE

PairInitial ==
  /\ \/ wa \in SortedWeights /\ wb \in SortedWeights
     \/ wa = ExampleA /\ wb = ExampleB
  /\ ppc = "start"
  /\ eqab = FALSE
  /\ eqba = FALSE
  /\ mop = "none"
  /\ mret = Fresh
  /\ calls = <<>>
  /\ c1 = Iterator(wa)
  /\ c2 = Iterator(wb)
  /\ wres = FALSE

\* wa == wb and wb == wa.
P_Equal ==
  /\ ppc = "start"
  /\ eqab' = WeightEq(wa, wb)
  /\ eqba' = WeightEq(wb, wa)
  /\ ppc' = "eq"
  /\ UNCHANGED <<wa, wb, mop, mret, calls, c1, c2, wres>>
  /\ UNCHANGED notPair

\* SparseTupleWeight ret; SparseTupleWeightMap(&ret, wa, wb, op).
P_Map(op) ==
  /\ ppc = "start"
  /\ \E s \in Vals :
       LET r == SparseTupleWeightMap(Construct(WZero, s), wa, wb, op)
       IN /\ mret' = r.ret
          /\ calls' = r.log
  /\ mop' = op
  /\ ppc' = "map"
  /\ UNCHANGED <<wa, wb, eqab, eqba, c1, c2, wres>>
  /\ UNCHANGED notPair

\* operator==(wa, wb) up to the loop: return false when the defaults differ.
P_EqBegin ==
  /\ ppc = "start"
  /\ c1' = Iterator(wa)
  /\ c2' = Iterator(wb)
  /\ IF DefaultValue(wa) # DefaultValue(wb)
       THEN wres' = FALSE /\ ppc' = "walked"
       ELSE wres' = wres /\ ppc' = "walk"
  /\ UNCHANGED <<wa, wb, eqab, eqba, mop, mret, calls>>
  /\ UNCHANGED notPair

\* The loop test and one iteration: return true when both cursors are done,
\* return false out of the body, or go round again.
P_EqStep ==
  /\ ppc = "walk"
  /\ IF Done(wa, c1) /\ Done(wb, c2)
       THEN /\ wres' = TRUE
            /\ ppc' = "walked"
            /\ UNCHANGED <<c1, c2>>
       ELSE LET r == EqStep(wa, wb, c1, c2)
            IN IF r.ok
                 THEN /\ c1' = r.it1
                      /\ c2' = r.it2
                      /\ UNCHANGED <<wres, ppc>>
                 ELSE /\ wres' = FALSE
                      /\ ppc' = "walked"
                      /\ UNCHANGED <<c1, c2>>
  /\ UNCHANGED <<wa, wb, eqab, eqba, mop, mret, calls>>
  /\ UNCHANGED notPair

PairNext ==
  \/ P_Equal
  \/ \E op \in Mappers : P_Map(op)
  \/ P_EqBegin
  \/ P_EqStep

(***************************************************************************)
(* An iterator over one weight: the loop                                   *)
(*   for (it(w); !it.Done(); it.Next()) ... it.Value() ...                 *)
(* one iteration at a time, and Reset() at any point of it.                *)
(***************************************************************************)
RECURSIVE PushSeq(_, _, _)
PushSeq(x, ps, i) ==
  IF i > Len(ps) THEN x ELSE PushSeq(Push(x, ps[i], FALSE), ps, i + 1)

\* The weights up to MaxPush calls of Push can build, any keys.
BuiltWeights ==
  {PushSeq(Construct(d, s), ps, 1) :
     d \in Vals, s \in Vals,
     ps \in UNION {[1..n -> Keys \X Vals] : n \in 0..MaxPush}}

IterIdle ==
  /\ iw = Fresh
  /\ itr = Iterator(Fresh)
  /\ out = <<>>
  /\ nn = 0
  /\ pass = 0

IterInitial ==
  /\ iw \in BuiltWeights
  /\ itr = Iterator(iw)
  /\ out = <<>>
  /\ nn = 0
  /\ pass = 0

\* One iteration: the body reads Value(), then Next().
It_Step ==
  /\ ~Done(iw, itr)
  /\ out' = Append(out, Value(iw, itr))
  /\ itr' = ItNext(itr)
  /\ nn' = nn + 1
  /\ UNCHANGED <<iw, pass>>
  /\ UNCHANGED notIter

It_Reset ==
  /\ pass < MaxResets
  /\ itr' = Reset(itr)
  /\ out' = <<>>
  /\ nn' = 0
  /\ pass' = pass + 1
  /\ UNCHANGED iw
  /\ UNCHANGED notIter

IterNext ==
  \/ It_Step
  \/ It_Reset

(***************************************************************************)
(* main of fstconvert and fstreverse.  env says which of the library calls *)
(* will succeed: FstClass::Read, the type test of fstconvert, Convert (or  *)
(* Reverse), and Write.                                                    *)
(***************************************************************************)
Tools == {"fstconvert", "fstreverse"}

Envs == [read : BOOLEAN, same_type : BOOLEAN, conv : BOOLEAN, write : BOOLEAN]

ToolIdle ==
  /\ tool = "none"
  /\ argc = 0
  /\ env = [read |-> FALSE, same_type |-> FALSE, conv |-> FALSE, write |-> FALSE]
  /\ tpc = "idle"
  /\ status = -1
  /\ output = "none"

ToolInitial ==
  /\ tool \in Tools
  /\ argc \in 1..MaxArgc
  /\ env \in Envs
  /\ tpc = "flags"
  /\ status = -1
  /\ output = "none"

\* return n.
Return(n) ==
  /\ status' = n
  /\ tpc' = "exit"

\* if (argc > 3) { ShowUsage(); return 1; }
T_Flags ==
  /\ tpc = "flags"
  /\ IF argc > 3
       THEN Return(1)
       ELSE tpc' = "read" /\ UNCHANGED status
  /\ UNCHANGED <<tool, argc, env, output>>
  /\ UNCHANGED notTool

\* ifst(FstClass::Read(in_name)); if (!ifst) return 1;
T_Read ==
  /\ tpc = "read"
  /\ IF ~env.read
       THEN Return(1)
       ELSE tpc' = "process" /\ UNCHANGED status
  /\ UNCHANGED <<tool, argc, env, output>>
  /\ UNCHANGED notTool

\* fstconvert: if (ifst->FstType() != FLAGS_fst_type) { ofst(Convert(...));
\* if (!ofst) return 1; ... }
T_Convert ==
  /\ tpc = "process"
  /\ tool = "fstconvert"
  /\ IF ~env.same_type /\ ~env.conv
       THEN Return(1)
       ELSE tpc' = "write" /\ UNCHANGED status
  /\ UNCHANGED <<tool, argc, env, output>>
  /\ UNCHANGED notTool

\* fstreverse: s::Reverse(*ifst, &out, ...); it returns nothing.
T_Reverse ==
  /\ tpc = "process"
  /\ tool = "fstreverse"
  /\ tpc' = "write"
  /\ UNCHANGED <<tool, argc, env, output, status>>
  /\ UNCHANGED notTool

\* ofst->Write(out_name) / ifst->Write(out_name) / out.Write(out_name);
\* return 0;
T_Write ==
  /\ tpc = "write"
  /\ output' = IF env.write THEN "written" ELSE "failed"
  /\ Return(0)
  /\ UNCHANGED <<tool, argc, env>>
  /\ UNCHANGED notTool

ToolNext ==
  \/ T_Flags
  \/ T_Read
  \/ T_Convert
  \/ T_Reverse
  \/ T_Write

\* The steps of thread t.
ThreadNext(t) ==
  \/ FstOnceInit_Enter(t)
  \/ Init_Lock(t)
  \/ Init_Register(t)
  \/ FstOnceInit_Exit(t)
  \/ GetRegister_Return(t)
  \/ \E k \in RKeys : CallSetEntry(t, k)
  \/ \E k \in RKeys : CallGetEntry(t, k)
  \/ SetEntry_Insert(t)
  \/ LoadEntry_Lookup(t)
  \/ GetEntry_Copy(t)
  \/ LoadEntry_ReturnDefault(t)
  \/ GetEntry_Return(t)
  \/ LoadEntry_DlopenFail(t)
  \/ LoadEntry_DlopenOk(t)
  \/ LoadEntry_ModuleInit(t)

RegNext == \E t \in Threads : ThreadNext(t)

Init == RegInit /\ WeightIdle /\ PairIdle /\ IterIdle /\ ToolIdle

Spec == Init /\ [][RegNext]_vars

\* Every thread that can take a step is scheduled again.
FairSpec == Spec /\ \A t \in Threads : WF_vars(ThreadNext(t))

WeightSpecInit == RegInit /\ WeightInitial /\ PairIdle /\ IterIdle /\ ToolIdle

WeightSpec == WeightSpecInit /\ [][WeightNext]_vars

PairSpecInit == RegInit /\ WeightIdle /\ PairInitial /\ IterIdle /\ ToolIdle

PairSpec == PairSpecInit /\ [][PairNext]_vars

IterSpecInit == RegInit /\ WeightIdle /\ PairIdle /\ IterInitial /\ ToolIdle

IterSpec == IterSpecInit /\ [][IterNext]_vars

ToolSpecInit == RegInit /\ WeightIdle /\ PairIdle /\ IterIdle /\ ToolInitial

ToolSpec == ToolSpecInit /\ [][ToolNext]_vars

(***************************************************************************)
(* Properties of the registry.                                             *)
(***************************************************************************)
InGetRegister == {"getreg", "init_lock", "init_register", "once_done", "getreg_ret"}

\* The thread t takes a step.
Steps(t) == pc'[t] # pc[t]

\* C1: first registration wins.  A stored entry is always the entry of the
\* first SetEntry of its key to take the lock; a SetEntry whose key is stored
\* leaves the whole table as it was; and a GetEntry of a key that was
\* registered when it was called returns that first entry.
C1_State ==
  /\ \A k \in DOMAIN register_table_ :
       firstReg[k] # 0 /\ register_table_[k] = firstReg[k]
  /\ \A t \in Threads :
       pc[t] = "get_done" =>
         /\ ret[t] # DefaultEntry => ret[t] = firstReg[gkey[t]]
         /\ g[t].regAtStart => ret[t] # DefaultEntry

C1_FirstRegistrationWins ==
  [][ /\ C1_State'
      /\ \A t \in Threads :
           (Steps(t) /\ pc[t] = "set_insert" /\ skey[t] \in DOMAIN register_table_)
             => register_table_' = register_table_ ]_vars

\* C1 witness: a GetEntry returns the entry another thread registered first,
\* although the shared object it loaded called SetEntry for the same key with
\* an entry of its own.
C1_Witness ==
  \E t \in Threads :
    /\ pc[t] = "get_done"
    /\ g[t].modreg # 0
    /\ ret[t] # DefaultEntry
    /\ ret[t] # g[t].modreg
    /\ ret[t] = firstReg[gkey[t]]

\* C2 as stated: a GetEntry of a key that was never registered, whose load
\* failed or whose shared object did not register the key, returns EntryType()
\* and has inserted nothing into the table.
C2_Original ==
  \A t \in Threads :
    (pc[t] = "get_done" /\ firstReg[gkey[t]] = 0 /\ g[t].modreg = 0)
      => ret[t] = DefaultEntry /\ g[t].wrote = {}

\* C2 as amended: such a GetEntry returns EntryType() and leaves the key
\* without an entry; the steps of GetEntry itself never write the table, and
\* the only entries added during the call are the ones the loaded shared
\* object's registerers insert under their own keys.
C2_State ==
  \A t \in Threads :
    (pc[t] = "get_done" /\ firstReg[gkey[t]] = 0)
      => /\ ret[t] = DefaultEntry
         /\ g[t].modreg = 0
         /\ gkey[t] \notin DOMAIN register_table_
         /\ gkey[t] \notin g[t].wrote

C2_MissLeavesKeyUnregistered ==
  [][ /\ C2_State'
      /\ \A t \in Threads :
           Steps(t) =>
             IF pc[t] = "set_insert"
               THEN DOMAIN register_table_' \subseteq DOMAIN register_table_ \cup {skey[t]}
               ELSE register_table_' = register_table_ ]_vars

\* C2 witness: a miss returns EntryType() after a load that succeeded and whose
\* shared object registered another key only.
C2_Witness ==
  \E t \in Threads :
    /\ pc[t] = "get_done"
    /\ firstReg[gkey[t]] = 0
    /\ g[t].loadok
    /\ g[t].wrote # {}
    /\ ret[t] = DefaultEntry

\* C3: no registration is lost.  Every key for which a SetEntry has returned
\* is in the table with the entry of its first (for pairwise distinct keys:
\* its only) registration, so that a later lookup finds exactly that entry.
C3_DistinctKeysAllRegistered ==
  /\ \A k \in regDone :
       /\ k \in DOMAIN register_table_
       /\ firstReg[k] # 0
       /\ register_table_[k] = firstReg[k]
  /\ \A t \in Threads :
       (pc[t] = "get_done" /\ g[t].regAtStart) => ret[t] = register_table_[gkey[t]]

\* C3 witness: two SetEntry calls with distinct keys have returned and both
\* entries are in the table under their keys.
C3_Witness ==
  /\ \A t \in Threads : pc[t] = "idle"
  /\ \E k1, k2 \in RKeys :
       /\ k1 # k2
       /\ {k1, k2} \subseteq regDone
       /\ register_table_[k1] = EntryOf(0)
       /\ register_table_[k2] = EntryOf(1)

\* C4: Init runs at most once, and a thread that has returned from
\* GetRegister holds the one registry object, non-null, with the mutex and the
\* table in existence and Init completed exactly once.
C4_OneTimeInit ==
  /\ initRuns <= 1
  /\ \A t \in Threads :
       pc[t] \notin InGetRegister =>
         /\ initRuns = 1
         /\ reg[t] # nullptr
         /\ reg[t] = register_
         /\ register_lock_ # nullptr
         /\ register_init_ = "done"

\* C4 witness: every thread has returned from GetRegister.
C4_Witness ==
  /\ NumThreads >= 2
  /\ \A t \in Threads : pc[t] = "idle" /\ reg[t] # nullptr

\* C5 as stated: when the load succeeds and the shared object's startup code
\* calls SetEntry(k, e), the same GetEntry(k) returns e.
C5_Original ==
  \A t \in Threads :
    (pc[t] = "get_done" /\ g[t].modreg # 0) => ret[t] = g[t].modreg

\* C5 as amended: the first lookup precedes any load attempt, a load is
\* attempted only after that lookup missed, and when the shared object's
\* startup code called SetEntry(k, e) the lookup is repeated and the call
\* returns the entry stored for k (the first registered one, which is e when
\* no other registration of k came first), never EntryType().
C5_LoadOnMiss ==
  \A t \in Threads :
    /\ phase[t] # 0 =>
         \/ g[t].trace = <<"lookup">>
         \/ g[t].trace = <<"lookup", "load">> /\ ~g[t].hit1
         \/ g[t].trace = <<"lookup", "load", "lookup">> /\ ~g[t].hit1 /\ g[t].loadok
    /\ (pc[t] = "get_done" /\ g[t].hit1) =>
         g[t].trace = <<"lookup">> /\ ret[t] = register_table_[gkey[t]]
    /\ (pc[t] = "get_done" /\ g[t].modreg # 0) =>
         /\ g[t].trace = <<"lookup", "load", "lookup">>
         /\ ret[t] # DefaultEntry
         /\ ret[t] = firstReg[gkey[t]]
         /\ gkey[t] \in g[t].wrote => ret[t] = g[t].modreg

\* C5 witness: a GetEntry that missed, loaded the shared object and returns the
\* entry its startup code registered.
C5_Witness ==
  \E t \in Threads :
    /\ pc[t] = "get_done"
    /\ g[t].modreg # 0
    /\ ret[t] = g[t].modreg


(***************************************************************************)
(* SparseTupleWeight: properties of WeightSpec and PairSpec.               *)
(***************************************************************************)
\* The step is a Push that was elided: called with default_value_check on and a
\* value equal to the default.
ElidedPush == hist'.n = hist.n + 1 /\ hist'.el

StoredKeys(x) == {Stored(x)[i][1] : i \in 1..Len(Stored(x))}

\* The value the weight gives a key: the one stored with it, else the default.
Eff(x, k) ==
  LET at == {i \in 1..Len(Stored(x)) : Stored(x)[i][1] = k}
  IN IF at = {} THEN x.def ELSE Stored(x)[CHOOSE i \in at : TRUE][2]

\* C6 as stated: after pushes with strictly increasing keys, Size() is the
\* number of pushes whose value differed from the default at the time of the
\* push, and an elided push leaves Size() and the stored components unchanged.
C6_Original ==
  [][ /\ hist'.incr => Size(w') = hist'.ndiff
      /\ ElidedPush => (Size(w') = Size(w) /\ Stored(w') = Stored(w)) ]_vars

\* C6: after pushes with strictly increasing keys none of which is kNoKey,
\* Size() is the number of pushes whose value differed from the default at the
\* time of the push plus the number of pushes of a default value made with
\* default_value_check off; an elided push leaves Size() and the stored
\* components unchanged.
C6_SizeCountsStoredPushes ==
  [][ /\ (hist'.incr /\ ~hist'.nokey) => Size(w') = hist'.ndiff + hist'.nforced
      /\ ElidedPush => (Size(w') = Size(w) /\ Stored(w') = Stored(w)) ]_vars

\* Two pushes with increasing keys: one stored, then one elided.
C6_Witness ==
  /\ hist.n = 2
  /\ hist.incr
  /\ ~hist.nokey
  /\ hist.el
  /\ hist.ndiff + hist.nforced = 1
  /\ Size(w) = 1

\* C7: on weights whose stored keys are strictly increasing, operator== is
\* reflexive, symmetric and transitive, weights holding a forced component
\* equal to their default included.
C7_EqualityIsEquivalence ==
  ppc = "eq" =>
    /\ WeightEq(wa, wa)
    /\ WeightEq(wb, wb)
    /\ eqab = eqba
    /\ \A w3 \in SortedWeights : (eqab /\ WeightEq(wb, w3)) => WeightEq(wa, w3)

\* Two weights that compare equal although one stores a component the other
\* does not.
C7_Witness ==
  /\ ppc = "eq"
  /\ eqab
  /\ eqba
  /\ Size(wa) < Size(wb)

\* C8 as stated: the weight read back from operator<<'s output has the same
\* default and the identical stored sequence as the weight written, stored
\* components equal to the default included, so it is == to it and has its
\* size.
C8_Original ==
  cop = "read" =>
    /\ c.def = w.def
    /\ Stored(c) = Stored(w)
    /\ Size(c) = Size(w)
    /\ WeightEq(c, w)

\* C9: combining two weights with strictly increasing keys into a new result
\* calls the mapper in the walk exactly once for every key stored in either,
\* with each side's stored value or its default where the key is absent, and
\* the result's value at the key is what the mapper returned.  A = {0, (2,5)}
\* and B = {0, (2,3), (4,1)} added give {0, (2,8), (4,1)}.
C9_MapCombinesEveryKeyOnce ==
  ppc = "map" =>
    LET walk == SelectSeq(calls, LAMBDA e : e.site = "walk")
        K == StoredKeys(wa) \cup StoredKeys(wb)
    IN /\ {walk[i].k : i \in 1..Len(walk)} = K
       /\ Len(walk) = Cardinality(K)
       /\ \A i \in 1..Len(walk) :
            /\ walk[i].a = Eff(wa, walk[i].k)
            /\ walk[i].b = Eff(wb, walk[i].k)
            /\ walk[i].r = OpMap(mop, walk[i].k, walk[i].a, walk[i].b)
            /\ Eff(mret, walk[i].k) = walk[i].r
       /\ (wa = ExampleA /\ wb = ExampleB /\ mop = "plus") =>
            /\ mret.def = 0
            /\ Stored(mret) = << <<2, 8>>, <<4, 1>> >>

\* The example of the claim has been combined.
C9_Witness ==
  /\ ppc = "map"
  /\ mop = "plus"
  /\ wa = ExampleA
  /\ wb = ExampleB
  /\ Len(calls) = 3
  /\ Size(mret) = 2

\* C10 as stated: a copy made by the copy constructor or by assignment has
\* the hash of the weight copied, and two weights with the same default and
\* the same stored sequence have the same hash.
C10_Original ==
  /\ cop \in {"copy", "assign"} => Hash(c) = Hash(w)
  /\ (c.def = w.def /\ Stored(c) = Stored(w)) => Hash(c) = Hash(w)


\* The stored sequence of a weight read off its members: first_ unless its key
\* is kNoKey, then rest_.
StoredSeq(x) == IF x.first[1] = kNoKey THEN <<>> ELSE <<x.first>> \o x.rest

\* The pairs of sq with f applied to each value.
MapValues(sq, f(_)) == [i \in 1..Len(sq) |-> <<sq[i][1], f(sq[i][2])>>]

\* C11 as stated: Quantize(delta) returns a weight with the default of the
\* original, whose stored components are those of the original with each
\* value quantized by delta, and leaves the original as it was.
C11_Original ==
  [][ (cop = "none" /\ cop' = "quantize") =>
        /\ c'.def = w.def
        /\ Stored(c') = MapValues(Stored(w), LAMBDA v : ScalarQuantize(v, delta'))
        /\ w' = w ]_vars

\* C12 as stated: a tool returns 0 only when the whole run succeeded, and 1
\* when it was given more than two positional arguments, the input could
\* not be read, the conversion failed, or the output could not be written.
C12_Original ==
  tpc = "exit" =>
    LET tooMany == argc > 3
        converted == IF tool = "fstconvert" THEN env.same_type \/ env.conv ELSE env.conv
        succeeded == ~tooMany /\ env.read /\ converted /\ env.write
    IN /\ status = 0 => succeeded
       /\ ~succeeded => status = 1

\* C13: a new iterator is in its initial state (init_ set); Done() there
\* says the inline slot holds kNoKey, and afterwards that iter_ is at the end of
\* rest_; the loop yields the stored sequence in storage order, is done
\* after exactly as many Next() calls as there are stored components, and
\* Reset() at any point brings back the initial state, so that the traversal
\* after it yields the same sequence.
C13_IteratorTraversal ==
  [][ /\ (nn' = 0 => itr' = Iterator(iw'))
      /\ (itr'.init => (Done(iw', itr') <=> iw'.first[1] = kNoKey))
      /\ (~itr'.init => (Done(iw', itr') <=> itr'.pos = Len(iw'.rest) + 1))
      /\ out' = SubSeq(StoredSeq(iw'), 1, nn')
      /\ (Done(iw', itr') <=> nn' = Len(StoredSeq(iw')))
      /\ (pass' = pass + 1 => (itr' = Iterator(iw) /\ out' = <<>>)) ]_vars

\* A second traversal, after a Reset() made in the middle of the first, has
\* ended on a weight with components in first_ and rest_.
C13_Witness ==
  /\ pass = 1
  /\ Len(iw.rest) >= 1
  /\ Done(iw, itr)
  /\ out = StoredSeq(iw)
  /\ nn = 2


\* The number of Next() calls that brought a cursor where it is.
Pos(i) == IF i.init THEN 0 ELSE i.pos

\* C14: for weights with strictly increasing stored keys, w1 == w2 returns
\* true iff the defaults are equal and every key stored in either has the same
\* effective value in both; each iteration of the walk advances at least one
\* cursor, no cursor is moved past its end, and the walk returns true only
\* when both cursors are done.
C14_EqualityComparesEffectiveValues ==
  [][ /\ ppc' = "walked" =>
           (wres' <=> /\ wa.def = wb.def
                      /\ \A k \in StoredKeys(wa) \cup StoredKeys(wb) :
                           Eff(wa, k) = Eff(wb, k))
      /\ (ppc = "walk" /\ ppc' = "walk") =>
           /\ Pos(c1') >= Pos(c1)
           /\ Pos(c2') >= Pos(c2)
           /\ Pos(c1') + Pos(c2') > Pos(c1) + Pos(c2)
           /\ Pos(c1') <= Size(wa)
           /\ Pos(c2') <= Size(wb)
      /\ (ppc = "walk" /\ ppc' = "walked" /\ wres') =>
           (Done(wa, c1) /\ Done(wb, c2)) ]_vars

\* The walk has returned true on two weights that differ in what they store.
C14_Witness ==
  /\ ppc = "walked"
  /\ wres
  /\ Size(wa) = 2
  /\ Size(wb) = 1
  /\ Pos(c1) = 2
  /\ Pos(c2) = 1


\* C15 as stated: the result's default is what the mapper returns for the
\* reserved key kNoKey and the two input defaults, and it is set before any
\* component is pushed, so that no stored result equals it.
C15_Original ==
  ppc = "map" =>
    /\ mret.def = OpMap(mop, kNoKey, wa.def, wb.def)
    /\ calls[1].site = "default"
    /\ \A i \in 1..Len(Stored(mret)) : Stored(mret)[i][2] # mret.def

\* C19: for inputs with strictly increasing stored keys and a newly
\* constructed result, the result's stored keys are strictly increasing, each
\* is a key of an input, and no stored value equals the result's default.
C19_MapPreservesInvariants ==
  ppc = "map" =>
    LET sq == Stored(mret)
    IN /\ \A i \in 1..Len(sq) : \A j \in 1..Len(sq) : i < j => sq[i][1] < sq[j][1]
       /\ StoredKeys(mret) \subseteq StoredKeys(wa) \cup StoredKeys(wb)
       /\ \A i \in 1..Len(sq) : sq[i][2] # mret.def

\* A result with two components and a default other than Zero, from operands
\* of which one stores a value equal to its default.
C19_Witness ==
  /\ ppc = "map"
  /\ Size(mret) = 2
  /\ mret.def # WZero
  /\ \E i \in 1..Len(Stored(wa)) : Stored(wa)[i][2] = wa.def

\* C20: two weights built only by default-eliding pushes in increasing key
\* order that compare equal have equal hashes.
C20_EqualWeightsHashEqual ==
  (ppc = "eq" /\ wa \in ElidingBuilt /\ wb \in ElidingBuilt /\ eqab) =>
    Hash(wa) = Hash(wb)

\* Two such weights with components compare equal; and so do two empty ones
\* that differ in the unused inline slot.
C20_Witness ==
  /\ ppc = "eq"
  /\ eqab
  /\ wa \in ElidingBuilt
  /\ wb \in ElidingBuilt
  /\ \/ Size(wa) = 2
     \/ wa # wb


\* C17: the registry lock is held only inside SetEntry (LookupEntry takes and
\* releases it within its step), never by a thread that is in dlopen or
\* waiting to look up again; whenever an operation is in progress some thread
\* can take a step; and every operation in progress, the load with the
\* startup code's SetEntry calls included, comes to its end.
C17_NoDeadlock ==
  /\ [](\A t \in Threads : lockHolder = t => pc[t] = "set_insert")
  /\ []((\E t \in Threads : pc[t] # "idle") => ENABLED RegNext)
  /\ \A t \in Threads : (pc[t] # "idle") ~> (pc[t] = "idle")

\* A thread inside dlopen, its shared object's startup code about to call
\* SetEntry, while another thread holds the registry lock.
C17_Witness ==
  \E t \in Threads : \E u \in Threads :
    /\ t # u
    /\ pc[t] = "module_init"
    /\ pending[t] # <<>>
    /\ dlHolder = t
    /\ lockHolder = u


\* C16 as stated: Reverse() returns a weight whose stored components are
\* those of the original, keys and order kept, each value reversed, and whose
\* default is the scalar Zero whatever the original default.
C16_Original ==
  cop = "reverse" =>
    /\ c.def = WZero
    /\ Stored(c) = MapValues(Stored(w), ScalarReverse)

\* C16: Reverse() returns a weight whose default is the scalar Zero whatever
\* the original default, and whose stored components are, for an original that
\* stores nothing under the reserved key kNoKey, those of the original, keys
\* and order kept, each value reversed, without the ones whose reversed value
\* is Zero.
C16_ReverseElidesZero ==
  cop = "reverse" =>
    /\ c.def = WZero
    /\ kNoKey \notin StoredKeys(w) =>
         Stored(c) = SelectSeq(MapValues(Stored(w), ScalarReverse),
                               LAMBDA p : p[2] # WZero)

\* A weight with a default other than Zero and two components, one of them
\* Zero, has been reversed.
C16_Witness ==
  /\ cop = "reverse"
  /\ w.def # WZero
  /\ Size(w) = 2
  /\ Size(c) = 1

\* C18: after any sequence of Init, Push (any key, with or without default
\* elision), SetDefaultValue, copy construction and assignment, rest_ is
\* empty whenever the inline slot holds kNoKey, and Size() is the number of
\* components a traversal yields; for the weight and for what was made of it.
C18_InlineSlotEmptyMeansNoTail ==
  /\ w.first[1] = kNoKey => w.rest = <<>>
  /\ Size(w) = Len(Stored(w))
  /\ c.first[1] = kNoKey => c.rest = <<>>
  /\ Size(c) = Len(Stored(c))

\* A push of kNoKey was overwritten by the next push, and the weight then
\* assigned to another object.
C18_Witness ==
  /\ hist.nokey
  /\ hist.n = 2
  /\ Size(w) = 1
  /\ cop = "assign"
  /\ Size(c) = 1

====
